---- MODULE Spec2Model ----
(***************************************************************************)
(* Model of fetch_bins.py: parse_date_string (the date normaliser) and     *)
(* extract_bins_from_html (the text-window extractor with its global       *)
(* "next collection" scan).                                                *)
(*                                                                         *)
(* A page text is a sequence of tokens.  Every token stands for a fixed    *)
(* piece of text of known width that ends in a punctuation character, so   *)
(* character offsets, window clamping and the regular expressions' word    *)
(* boundaries are computed as the code computes them on the real string.   *)
(***************************************************************************)
EXTENDS Integers, Sequences, FiniteSets, TLC

\* ---------------------------------------------------------------- bounds
MaxTokens == 4
MaxScanTokens == 5

\* ------------------------------------------------------ program constants
Radius == 120
FallbackPad == 200
PhraseReach == 120
NotFound == -1
None == 0

Max(a, b) == IF a >= b THEN a ELSE b
Min(a, b) == IF a <= b THEN a ELSE b

\* ------------------------------------------------------------ date strings
\* A date-like string "D<sep>M<sep>YYYY": day digits, separator, month as a
\* word (lower-cased letters plus the casing it was written in) or as
\* digits, and a four-digit year.
FullNames == << "january", "february", "march", "april", "may", "june", "july",
                "august", "september", "october", "november", "december" >>
AbbrNames == << "jan", "feb", "mar", "apr", "may", "jun", "jul", "aug", "sep",
                "oct", "nov", "dec" >>

Range(f) == { f[i] : i \in DOMAIN f }

DateStr(day, sep, word, wcase, mnum, year) ==
    [day |-> day, sep |-> sep, word |-> word, wcase |-> wcase, mnum |-> mnum, year |-> year]

NoDate == DateStr(<< >>, "", "", "", << >>, 0)

DigitsValue(ds) ==
    IF Len(ds) = 1 THEN ds[1] ELSE IF Len(ds) = 2 THEN 10 * ds[1] + ds[2] ELSE 0

\* [A-Za-z]{3}: words of exactly three letters.
ThreeLetters(w) == w \in Range(AbbrNames) \cup {"bin"}

IsLeap(y) == (y % 4 = 0 /\ y % 100 # 0) \/ y % 400 = 0

DaysInMonth(m, y) ==
    IF m = 2 THEN (IF IsLeap(y) THEN 29 ELSE 28)
    ELSE IF m \in {4, 6, 9, 11} THEN 30 ELSE 31

IndexIn(names, w) ==
    IF w \in Range(names) THEN CHOOSE i \in DOMAIN names : names[i] = w ELSE 0

\* The four (format, regex) pairs of parse_date_string, in list order.
NumPatterns == 4

\* re.search(rx, s) for the i-th pattern.
RegexMatches(i, s) ==
    /\ Len(s.day) \in {1, 2}
    /\ CASE i = 1 -> s.sep = " " /\ s.word # ""
         [] i = 2 -> s.sep = " " /\ ThreeLetters(s.word)
         [] i = 3 -> s.sep = "/" /\ Len(s.mnum) \in {1, 2}
         [] OTHER -> s.sep = "-" /\ Len(s.mnum) \in {1, 2}

\* The month number datetime.strptime reads under the i-th format: %B and %b
\* compare month names ignoring case, %m reads 1..12; 0 when it cannot.
StrptimeMonthFullOnly(i, s) ==
    CASE i = 1 -> IndexIn(FullNames, s.word)
      [] i = 2 -> IndexIn(FullNames, s.word)
      [] OTHER -> IF DigitsValue(s.mnum) \in 1..12 THEN DigitsValue(s.mnum) ELSE 0

StrptimeMonth(i, s) ==
    CASE i = 1 -> IndexIn(FullNames, s.word)
      [] i = 2 -> IndexIn(AbbrNames, s.word)
      [] OTHER -> IF DigitsValue(s.mnum) \in 1..12 THEN DigitsValue(s.mnum) ELSE 0

\* datetime.strptime(m.group(0), fmt) succeeds.
StrptimeOk(i, s) ==
    LET m == StrptimeMonth(i, s)
        d == DigitsValue(s.day)
    IN  /\ m # 0
        /\ d >= 1
        /\ d <= DaysInMonth(m, s.year)

\* dt.strftime("%Y-%m-%d"): the digits YYYYMMDD.
Strftime(y, m, d) == y * 10000 + m * 100 + d

Canonical(i, s) == Strftime(s.year, StrptimeMonth(i, s), DigitsValue(s.day))

\* "except Exception: continue": where the loop goes after a failed strptime.
AfterParseFailureMutant(i) == NumPatterns + 1

AfterParseFailure(i) == i + 1

RECURSIVE ParseFrom(_, _)
ParseFrom(i, s) ==
    IF i > NumPatterns THEN None
    ELSE IF RegexMatches(i, s)
         THEN IF StrptimeOk(i, s) THEN Canonical(i, s)
              ELSE ParseFrom(AfterParseFailure(i), s)
         ELSE ParseFrom(i + 1, s)

parse_date_string(s) == ParseFrom(1, s)

\* ------------------------------------------------------------------ tokens
\* The pieces of page text.  Each ends in one punctuation character (":" or
\* ","), the filler is 110 dots and NL is the newline joining two lines.
Fill == "<110 dots>"
NL == "\n"
Phrase == "next collection:"

Tokens ==
    { "general:", "black box:", "Recycling:", Phrase,
      "14 February 2025,", "21/03/2025,", "14-02-2025,", "31 June 2025,",
      Fill, NL }

ScanTokens ==
    { Phrase, "Recycling:", "14 February 2025,", "21 Mar 2025,", "21 FEB 2025,",
      Fill, NL }

\* len() of the token's text.
Width(tok) ==
    CASE tok = "general:" -> 8
      [] tok = "black box:" -> 10
      [] tok = "Recycling:" -> 10
      [] tok = Phrase -> 16
      [] tok = "14 February 2025," -> 17
      [] tok = "21 Mar 2025," -> 12
      [] tok = "21 FEB 2025," -> 12
      [] tok = "21/03/2025," -> 11
      [] tok = "14-02-2025," -> 11
      [] tok = "31 June 2025," -> 13
      [] tok = Fill -> 110
      [] OTHER -> 1

\* The date-like string a token holds before its trailing comma.
DateOf(tok) ==
    CASE tok = "14 February 2025," -> DateStr(<<1, 4>>, " ", "february", "title", << >>, 2025)
      [] tok = "21 Mar 2025," -> DateStr(<<2, 1>>, " ", "mar", "title", << >>, 2025)
      [] tok = "21 FEB 2025," -> DateStr(<<2, 1>>, " ", "feb", "upper", << >>, 2025)
      [] tok = "21/03/2025," -> DateStr(<<2, 1>>, "/", "", "", <<0, 3>>, 2025)
      [] tok = "14-02-2025," -> DateStr(<<1, 4>>, "-", "", "", <<0, 2>>, 2025)
      [] tok = "31 June 2025," -> DateStr(<<3, 1>>, " ", "june", "title", << >>, 2025)
      [] OTHER -> NoDate

\* full_text: non-empty stripped lines joined by single newlines.
WellFormed(t) ==
    /\ t[1] # NL
    /\ t[Len(t)] # NL
    /\ \A i \in 1..(Len(t) - 1) : ~ (t[i] = NL /\ t[i + 1] = NL)

TextsOver(alphabet, n) ==
    { t \in UNION { [1..m -> alphabet] : m \in 1..n } : WellFormed(t) }

\* Character offset of token i (0-based, as Python indexes full_text).
RECURSIVE Start(_, _)
Start(t, i) == IF i <= 1 THEN 0 ELSE Start(t, i - 1) + Width(t[i - 1])

TextLen(t) == Start(t, Len(t) + 1)

SetMin(S) == CHOOSE x \in S : \A y \in S : x <= y
SetMax(S) == CHOOSE x \in S : \A y \in S : x >= y

\* ----------------------------------------------------------------- mapping
Keys == << "general", "recycling", "glass" >>
NumKeys == Len(Keys)

mapping ==
    [ general |-> << "general", "black", "refuse", "household", "black bin",
                     "refuse collection" >>,
      recycling |-> << "recycling", "green", "green bin" >>,
      glass |-> << "glass", "glass box", "glass bin", "black box" >> ]

\* len(alias)
AliasLen(a) ==
    CASE a \in {"black", "green", "glass"} -> 5
      [] a = "refuse" -> 6
      [] a = "general" -> 7
      [] a = "refuse collection" -> 17
      [] OTHER -> 9

\* re.escape(alias) matches inside the token's text, ignoring case; every
\* such match starts at the token's first character.
Occurs(a, tok) ==
    \/ a = "general" /\ tok = "general:"
    \/ a = "black" /\ tok = "black box:"
    \/ a = "black box" /\ tok = "black box:"
    \/ a = "recycling" /\ tok = "Recycling:"

\* re.finditer(alias, full_text): the next match at or after token `from`.
FindIter(t, a, from) ==
    LET hits == { i \in DOMAIN t : i >= from /\ Occurs(a, t[i]) }
    IN  IF hits = {} THEN 0 ELSE SetMin(hits)

\* The loops "for alias in aliases: for m in re.finditer(...)": the next
\* occurrence to handle from alias number a, token i on; <<0, 0>> when the
\* aliases of the key are exhausted.
RECURSIVE NextTry(_, _, _, _)
NextTry(t, key, a, i) ==
    IF a > Len(mapping[key]) THEN <<0, 0>>
    ELSE LET j == FindIter(t, mapping[key][a], i)
         IN  IF j # 0 THEN <<a, j>> ELSE NextTry(t, key, a + 1, 1)

\* The same loops under "for key, aliases in mapping.items()": the next
\* occurrence from key number k on; key NumKeys + 1 when the loops are over.
RECURSIVE NextOccurrence(_, _, _, _)
NextOccurrence(t, k, a, i) ==
    IF k > NumKeys THEN <<NumKeys + 1, 1, 1>>
    ELSE LET o == NextTry(t, Keys[k], a, i)
         IN  IF o # <<0, 0>> THEN <<k, o[1], o[2]>>
             ELSE NextOccurrence(t, k + 1, 1, 1)

\* ----------------------------------------------------------------- date_rx
MonthWords == Range(FullNames) \cup Range(AbbrNames)

\* date_rx matches the whole string s; with re.IGNORECASE when ic, otherwise
\* the month must be written as in the pattern (capitalised).
DateRx(s, ic) ==
    /\ Len(s.day) \in {1, 2}
    /\ \/ s.sep = " " /\ s.word \in MonthWords /\ (ic \/ s.wcase = "title")
       \/ s.sep = "/" /\ Len(s.mnum) \in {1, 2}

\* What date_rx matches at token i within full_text[ws:we]: the whole date,
\* or the date less its first day digit when the slice starts one character
\* into a two-digit day; NoDate when it matches nothing there.
MatchAt(t, i, ws, we, ic) ==
    LET s == DateOf(t[i])
        b == Start(t, i)
        e == b + Width(t[i]) - 1
        cand == IF ws <= b THEN s
                ELSE IF ws = b + 1 /\ Len(s.day) = 2
                     THEN [s EXCEPT !.day = Tail(s.day)]
                     ELSE NoDate
    IN  IF s = NoDate \/ e > we \/ cand = NoDate THEN NoDate
        ELSE IF DateRx(cand, ic) THEN cand ELSE NoDate

DateHits(t, ws, we, ic) == { i \in DOMAIN t : MatchAt(t, i, ws, we, ic) # NoDate }

LastDate(t, ws, we, ic) ==
    LET hits == DateHits(t, ws, we, ic)
    IN  IF hits = {} THEN 0 ELSE SetMax(hits)

\* re.search(date_rx, window): the token of the leftmost match, 0 for none.
FirstDate(t, ws, we, ic) ==
    LET hits == DateHits(t, ws, we, ic)
    IN  IF hits = {} THEN 0 ELSE SetMin(hits)

\* parse_date_string(date_match.group(0)), None without a match.
SearchDate(t, ws, we, ic) ==
    LET i == FirstDate(t, ws, we, ic)
    IN  IF i = 0 THEN None ELSE parse_date_string(MatchAt(t, i, ws, we, ic))

\* ----------------------------------------------------------------- windows
SpanStart(t, a, j) == Max(0, Start(t, j) - Radius)
SpanEnd(t, a, j) == Min(TextLen(t), Start(t, j) + AliasLen(a) + Radius)

\* full_text.rfind("\n", 0, pos) and full_text.find("\n", pos)
RFindNL(t, pos) ==
    LET c == { Start(t, i) : i \in { x \in DOMAIN t : t[x] = NL /\ Start(t, x) < pos } }
    IN  IF c = {} THEN NotFound ELSE SetMax(c)

FindNL(t, pos) ==
    LET c == { Start(t, i) : i \in { x \in DOMAIN t : t[x] = NL /\ Start(t, x) >= pos } }
    IN  IF c = {} THEN NotFound ELSE SetMin(c)

LinesStart(t, a, j) == Max(0, RFindNL(t, Start(t, j)) - FallbackPad)
LinesEnd(t, a, j) == Min(TextLen(t), FindNL(t, Start(t, j) + AliasLen(a)) + FallbackPad)

WindowResult(t, a, j) == SearchDate(t, SpanStart(t, a, j), SpanEnd(t, a, j), TRUE)
LinesResult(t, a, j) == SearchDate(t, LinesStart(t, a, j), LinesEnd(t, a, j), TRUE)

\* ------------------------------------------------------------ global scan
PhraseLen == 15

\* The next match of the phrase pattern at or after character pos.
NextPhrase(t, pos) ==
    LET hits == { i \in DOMAIN t : t[i] = Phrase /\ Start(t, i) >= pos }
    IN  IF hits = {} THEN 0 ELSE SetMin(hits)

\* m.end(): the phrase and ".{0,120}", which stops at a newline.
PhraseEnd(t, i) ==
    LET pe == Start(t, i) + PhraseLen
        nl == FindNL(t, pe)
    IN  Min(pe + PhraseReach, IF nl = NotFound THEN TextLen(t) ELSE nl)

\* re.search(date_rx, m.group(0)): no re.IGNORECASE here.
PhraseResult(t, i) == SearchDate(t, Start(t, i), PhraseEnd(t, i), FALSE)

GlobalAssignAll(f, parsed) == [k \in DOMAIN f |-> parsed]

GlobalAssignLast(f, parsed) == [f EXCEPT !["general"] = parsed]

\* found["general"] = found["general"] or parsed
GlobalAssign(f, parsed) ==
    [f EXCEPT !["general"] = IF f["general"] # None THEN f["general"] ELSE parsed]

AfterHitNoBreak(k, a, j) == <<k, a, j + 1>>

AfterHitReturn(k, a, j) == <<NumKeys + 1, 1, 1>>

\* The two "break"s after an assignment: on to the next key.
AfterHit(k, a, j) == <<k + 1, 1, 1>>


\* ------------------------------------------------------------------- state
VARIABLES
    text,      \* full_text, as tokens
    found,     \* found: key -> date or None
    decided,   \* what the [DEBUG] lines report per key: alias, occurrence, path
    win,       \* the slices computed for the occurrence handled last
    pc,        \* "scan", "global", "done"; "parse", "returned" for the parser
    at,        \* where the loops over keys, aliases and matches stand
    gpos,      \* character from which the phrase re.finditer goes on
    str,       \* parse_date_string: s
    pat,       \* parse_date_string: position in "for fmt, rx in patterns"
    ret        \* parse_date_string: the returned value

vars == <<text, found, decided, win, pc, at, gpos, str, pat, ret>>

ki == at[1]    \* position in "for key, aliases in mapping.items()"
ai == at[2]    \* position in "for alias in aliases"
ti == at[3]    \* token of the match re.finditer gave

parseVars == <<str, pat, ret>>
scanVars == <<text, found, decided, win, at, gpos>>

Undecided == [alias |-> 0, tok |-> 0, via |-> ""]
NoWin == [tok |-> 0, ws |-> 0, we |-> 0, lines |-> FALSE, ls |-> 0, le |-> 0]

InitOver(texts) ==
    /\ text \in texts
    /\ found = [k \in Range(Keys) |-> None]
    /\ decided = [k \in Range(Keys) |-> Undecided]
    /\ win = NoWin
    /\ pc = "scan"
    /\ at = NextOccurrence(text, 1, 1, 1)
    /\ gpos = 0
    /\ str = NoDate
    /\ pat = 0
    /\ ret = None

Init == InitOver(TextsOver(Tokens, MaxTokens))

InitScan == InitOver(TextsOver(ScanTokens, MaxScanTokens))

\* ------------------------------------------- extract_bins_from_html, 71-95
\* <<ki, ai, ti>> is the alias occurrence the loops handle next: the match of
\* alias number ai of key number ki at token ti.
Scanning == pc = "scan" /\ ki <= NumKeys

alias == mapping[Keys[ki]][ai]

\* The loops go on from position p.
Resume(p) == at' = NextOccurrence(text, p[1], p[2], p[3])

WinOf(a, j, lines) ==
    [tok |-> j, ws |-> SpanStart(text, a, j), we |-> SpanEnd(text, a, j),
     lines |-> lines,
     ls |-> IF lines THEN LinesStart(text, a, j) ELSE 0,
     le |-> IF lines THEN LinesEnd(text, a, j) ELSE 0]

\* A date in the +/-120 window of the occurrence parses: assign and break.
WindowHit ==
    /\ Scanning
    /\ LET parsed == WindowResult(text, alias, ti)
       IN  /\ parsed # None
           /\ found' = [found EXCEPT ![Keys[ki]] = parsed]
    /\ decided' = [decided EXCEPT ![Keys[ki]] =
                      [alias |-> ai, tok |-> ti, via |-> "window"]]
    /\ win' = WinOf(alias, ti, FALSE)
    /\ Resume(AfterHit(ki, ai, ti))
    /\ UNCHANGED <<text, pc, gpos, parseVars>>

\* Nothing from the window, but a date in the lines window parses.
FallbackHit ==
    /\ Scanning
    /\ WindowResult(text, alias, ti) = None
    /\ LET parsed == LinesResult(text, alias, ti)
       IN  /\ parsed # None
           /\ found' = [found EXCEPT ![Keys[ki]] = parsed]
    /\ decided' = [decided EXCEPT ![Keys[ki]] =
                      [alias |-> ai, tok |-> ti, via |-> "fallback"]]
    /\ win' = WinOf(alias, ti, TRUE)
    /\ Resume(AfterHit(ki, ai, ti))
    /\ UNCHANGED <<text, pc, gpos, parseVars>>

\* Neither slice gives a date: on to the next match of the alias.
NoDateHere ==
    /\ Scanning
    /\ WindowResult(text, alias, ti) = None
    /\ LinesResult(text, alias, ti) = None
    /\ win' = WinOf(alias, ti, TRUE)
    /\ Resume(<<ki, ai, ti + 1>>)
    /\ UNCHANGED <<text, found, decided, pc, gpos, parseVars>>

\* ------------------------------------------ extract_bins_from_html, 97-109
AnyFound == found # [k \in Range(Keys) |-> None]

\* "if not any(found.values())"
StartGlobalScan ==
    /\ pc = "scan"
    /\ ki > NumKeys
    /\ ~ AnyFound
    /\ pc' = "global"
    /\ gpos' = 0
    /\ UNCHANGED <<text, found, decided, win, at, parseVars>>

SkipGlobalScan ==
    /\ pc = "scan"
    /\ ki > NumKeys
    /\ AnyFound
    /\ pc' = "done"
    /\ UNCHANGED <<scanVars, parseVars>>

GlobalHit ==
    /\ pc = "global"
    /\ NextPhrase(text, gpos) # 0
    /\ LET i == NextPhrase(text, gpos)
           parsed == PhraseResult(text, i)
       IN  /\ parsed # None
           /\ found' = GlobalAssign(found, parsed)
           /\ decided' = [decided EXCEPT !["general"] =
                             IF found["general"] # None THEN @
                             ELSE [alias |-> 0, tok |-> i, via |-> "generic"]]
           /\ gpos' = PhraseEnd(text, i)
    /\ UNCHANGED <<text, win, pc, at, parseVars>>

GlobalMiss ==
    /\ pc = "global"
    /\ NextPhrase(text, gpos) # 0
    /\ LET i == NextPhrase(text, gpos)
       IN  /\ PhraseResult(text, i) = None
           /\ gpos' = PhraseEnd(text, i)
    /\ UNCHANGED <<text, found, decided, win, pc, at, parseVars>>

\* "return found"
GlobalEnd ==
    /\ pc = "global"
    /\ NextPhrase(text, gpos) = 0
    /\ pc' = "done"
    /\ UNCHANGED <<scanVars, parseVars>>

Next ==
    \/ WindowHit
    \/ FallbackHit
    \/ NoDateHere
    \/ StartGlobalScan
    \/ SkipGlobalScan
    \/ GlobalHit
    \/ GlobalMiss
    \/ GlobalEnd

Spec == Init /\ [][Next]_vars

SpecScan == InitScan /\ [][Next]_vars

\* ------------------------------------------------ parse_date_string, 24-41
Years == {2024, 2025}
DayInputs == { <<0>>, <<1>>, <<0, 1>>, <<1, 4>>, <<2, 9>>, <<3, 0>>, <<3, 1>>, <<3, 2>> }
MonthInputs == { <<0>>, <<0, 0>>, <<1>>, <<2>>, <<0, 2>>, <<6>>, <<1, 2>>, <<1, 3>> }
WordInputs == MonthWords \cup {"bin", "sept"}
Casings == {"title", "upper", "lower"}

ParseInputs ==
    { DateStr(d, " ", w, c, << >>, y) :
        d \in DayInputs, w \in WordInputs, c \in Casings, y \in Years }
    \cup
    { DateStr(d, sep, "", "", m, y) :
        d \in DayInputs, sep \in {"/", "-"}, m \in MonthInputs, y \in Years }

InitParse ==
    /\ str \in ParseInputs
    /\ pat = 1
    /\ ret = None
    /\ pc = "parse"
    /\ text = << >>
    /\ found = [k \in Range(Keys) |-> None]
    /\ decided = [k \in Range(Keys) |-> Undecided]
    /\ win = NoWin
    /\ at = <<0, 0, 0>>
    /\ gpos = 0

Trying == pc = "parse" /\ pat <= NumPatterns

\* "if m:" is false: the next pattern.
ShapeMismatch ==
    /\ Trying
    /\ ~ RegexMatches(pat, str)
    /\ pat' = pat + 1
    /\ UNCHANGED <<str, ret, pc, scanVars>>

\* strptime succeeds: return dt.strftime("%Y-%m-%d").
ParseReturn ==
    /\ Trying
    /\ RegexMatches(pat, str)
    /\ StrptimeOk(pat, str)
    /\ ret' = Canonical(pat, str)
    /\ pc' = "returned"
    /\ UNCHANGED <<str, pat, scanVars>>

\* strptime raises: "except Exception: continue".
ParseFailure ==
    /\ Trying
    /\ RegexMatches(pat, str)
    /\ ~ StrptimeOk(pat, str)
    /\ pat' = AfterParseFailure(pat)
    /\ UNCHANGED <<str, ret, pc, scanVars>>

\* "return None"
NoPatternLeft ==
    /\ pc = "parse"
    /\ pat > NumPatterns
    /\ ret' = None
    /\ pc' = "returned"
    /\ UNCHANGED <<str, pat, scanVars>>

NextParse ==
    \/ ShapeMismatch
    \/ ParseReturn
    \/ ParseFailure
    \/ NoPatternLeft

SpecParse == InitParse /\ [][NextParse]_vars


\* ================================================================== claims
KeyIndex(k) == CHOOSE i \in 1..NumKeys : Keys[i] = k

\* The alias occurrences of key k: <<alias number, token>>.
Occurrences(k) ==
    { o \in (1..Len(mapping[k])) \X (DOMAIN text) : Occurs(mapping[k][o[1]], text[o[2]]) }

\* o1 comes before o2: declared alias order first, then position in the text.
Before(o1, o2) == o1[1] < o2[1] \/ (o1[1] = o2[1] /\ o1[2] < o2[2])

\* What occurrence o of key k gives: the +/-120 window first, then the lines window.
Yield(k, o) ==
    LET a == mapping[k][o[1]]
        w == WindowResult(text, a, o[2])
    IN  IF w # None THEN w ELSE LinesResult(text, a, o[2])

Earliest(k, o) ==
    /\ Yield(k, o) # None
    /\ \A o2 \in Occurrences(k) : Before(o2, o) => Yield(k, o2) = None

\* The slice that decides at occurrence o: <<start, end>>.
SliceOf(k, o) ==
    LET a == mapping[k][o[1]]
    IN  IF WindowResult(text, a, o[2]) # None
        THEN <<SpanStart(text, a, o[2]), SpanEnd(text, a, o[2])>>
        ELSE <<LinesStart(text, a, o[2]), LinesEnd(text, a, o[2])>>

LoopsOver == pc \in {"global", "done"}
\* extract_bins_from_html has returned: found is the result.
Returned == pc = "done"
Resolved(k) == LoopsOver \/ (pc = "scan" /\ ki > KeyIndex(k))
ByAlias(k) == decided[k].via \in {"window", "fallback"}

\* ---------------------------------------------------------------------- C1
\* C1 as stated: a key none of whose aliases occurs in the text has no date,
\* for all three keys, "general" included.
C1_NoAliasNoDate ==
    \A k \in Range(Keys) : Occurrences(k) = {} => found[k] = None

\* C1 amended: a key none of whose aliases occurs has no date, except that
\* "general" may hold the date of a "next collection" match, and then only
\* when the other keys have none.
C1_NoAliasNoDateButGeneric ==
    \A k \in Range(Keys) :
        (found[k] # None /\ Occurrences(k) = {}) =>
            /\ k = "general"
            /\ LoopsOver
            /\ found["recycling"] = None
            /\ found["glass"] = None
            /\ \E i \in DOMAIN text :
                   text[i] = Phrase /\ found["general"] = PhraseResult(text, i)

C1_Witness ==
    /\ pc = "done"
    /\ Occurrences("general") = {}
    /\ found["general"] # None
    /\ Occurrences("glass") = {}
    /\ found["glass"] = None
    /\ Occurrences("recycling") = {}
    /\ \E i \in DOMAIN text : DateOf(text[i]) # NoDate

\* ---------------------------------------------------------------------- C2
DigitForms(n) == IF n < 10 THEN { <<n>>, <<0, n>> } ELSE { <<n \div 10, n % 10>> }

\* The four written forms of day d, month m, year y.
WrittenForms(d, m, y) ==
    { DateStr(dd, " ", w, c, << >>, y) :
        dd \in DigitForms(d), w \in {FullNames[m], AbbrNames[m]}, c \in Casings }
    \cup
    { DateStr(dd, sep, "", "", mm, y) :
        dd \in DigitForms(d), sep \in {"/", "-"}, mm \in DigitForms(m) }

\* C2: every written form of a valid day, month and year normalises to the
\* one canonical YYYY-MM-DD of that date, whichever of the four formats it is in.
C2_FormatInvariance ==
    pc = "returned" =>
        \A y \in Years, m \in 1..12 :
            \A d \in 1..DaysInMonth(m, y) :
                str \in WrittenForms(d, m, y) => ret = y * 10000 + m * 100 + d

C2_Witness ==
    /\ pc = "returned"
    /\ str = DateStr(<<1, 4>>, " ", "feb", "title", << >>, 2025)
    /\ ret = 20250214

\* ---------------------------------------------------------------------- C3
\* C3: a key's date, once set, never changes, and it is the date of the
\* earliest alias occurrence that gives one (alias order first, then position;
\* at an occurrence the +/-120 window before the lines window).
C3_FirstMatchWins ==
    /\ [][\A k \in Range(Keys) : found[k] # None => found'[k] = found[k]]_vars
    /\ [](\A k \in Range(Keys) :
              Resolved(k) =>
                  \A o \in Occurrences(k) :
                      Earliest(k, o) =>
                          /\ found[k] = Yield(k, o)
                          /\ decided[k].alias = o[1]
                          /\ decided[k].tok = o[2])

C3_Witness ==
    /\ pc = "done"
    /\ \E k \in Range(Keys) :
           \E o1, o2 \in Occurrences(k) :
               /\ Earliest(k, o1)
               /\ Before(o1, o2)
               /\ o1[2] > o2[2]
               /\ Yield(k, o2) \notin {None, Yield(k, o1)}
               /\ found[k] = Yield(k, o1)

\* ---------------------------------------------------------------------- C4
\* What the slice deciding at occurrence o finds: <<slice start, date token>>.
Decision(k, o) ==
    LET sl == SliceOf(k, o)
    IN  <<sl[1], FirstDate(text, sl[1], sl[2], TRUE)>>

\* Two decisions land on the same date substring, whole in both slices.
SameDate(h1, h2) ==
    /\ h1[2] = h2[2]
    /\ h1[1] <= Start(text, h1[2])
    /\ h2[1] <= Start(text, h1[2])

\* The occurrence of key k that decides it: the first, in loop order, that
\* yields a date (none when no occurrence does).
Deciding(k) ==
    LET yielding == { o \in Occurrences(k) : Yield(k, o) # None }
    IN  { o \in yielding : \A o2 \in yielding : ~ Before(o2, o) }

C5_GlobalScanFrame ==
    /\ [][ /\ (pc = "scan" /\ pc' = "global") =>
                (ki > NumKeys /\ \A k \in Range(Keys) : found[k] = None)
           /\ pc = "global" =>
                /\ found'["recycling"] = None
                /\ found'["glass"] = None
                /\ found["general"] # None => found'["general"] = found["general"] ]_vars
    /\ [](pc = "global" => (found["recycling"] = None /\ found["glass"] = None))

C5_Witness ==
    /\ pc = "done"
    /\ decided["general"].via = "generic"
    /\ found["recycling"] = None
    /\ found["glass"] = None
    /\ \E i, j \in DOMAIN text :
           /\ text[i] = Phrase
           /\ text[j] = Phrase
           /\ Start(text, j) >= PhraseEnd(text, i)
           /\ PhraseResult(text, i) # None
           /\ PhraseResult(text, j) \notin {None, PhraseResult(text, i)}
           /\ found["general"] = PhraseResult(text, i)

\* ---------------------------------------------------------------------- C6
ShapeMatching(s) == { i \in 1..NumPatterns : RegexMatches(i, s) }
Accepting(s) == { i \in ShapeMatching(s) : StrptimeOk(i, s) }

\* C6 as stated: when the first format whose shape matches fails to parse,
\* the result is None: no later format is tried.
C6_NoRetry ==
    ( /\ pc = "returned"
      /\ ShapeMatching(str) # {}
      /\ ~ StrptimeOk(SetMin(ShapeMatching(str)), str) ) => ret = None

\* C6 amended: the formats are tried in their fixed order and a parse failure
\* under a format whose shape matches moves on to the next format; the result
\* is that of the first format that both matches and parses, None if none does.
C6_RetryNextFormat ==
    /\ [][ (pc = "parse" /\ pat <= NumPatterns /\ RegexMatches(pat, str)
              /\ ~ StrptimeOk(pat, str)) =>
                (pc' = "parse" /\ pat' = pat + 1 /\ ret' = ret) ]_vars
    /\ [](pc = "returned" =>
              ret = IF Accepting(str) = {} THEN None
                    ELSE Canonical(SetMin(Accepting(str)), str))

C6_Witness ==
    /\ pc = "returned"
    /\ ShapeMatching(str) # {}
    /\ ~ StrptimeOk(SetMin(ShapeMatching(str)), str)
    /\ ret # None
    /\ str = DateStr(<<1, 4>>, " ", "feb", "title", << >>, 2025)

\* ---------------------------------------------------------------------- C7
\* Token e has text inside full_text[ws:we].
InRange(e, ws, we) == Start(text, e) < we /\ Start(text, e) + Width(text[e]) - 1 > ws

\* C7 as stated: a valid date in any of the four formats, whole within 120
\* characters of an alias occurrence with no other date-like text in range,
\* becomes the key's date.
C7_EveryShapeSearched ==
    LoopsOver =>
        \A k \in Range(Keys) :
            \A o \in Occurrences(k), d \in DOMAIN text :
                LET a == mapping[k][o[1]]
                    ws == SpanStart(text, a, o[2])
                    we == SpanEnd(text, a, o[2])
                IN  ( /\ parse_date_string(DateOf(text[d])) # None
                      /\ ws <= Start(text, d)
                      /\ Start(text, d) + Width(text[d]) - 1 <= we
                      /\ \A e \in DOMAIN text \ {d} :
                             DateOf(text[e]) # NoDate => ~ InRange(e, ws, we) ) =>
                        found[k] = parse_date_string(DateOf(text[d]))

\* ---------------------------------------------------------------------- C8
\* The valid dates that end within 120 characters after a phrase.
DatesAfterPhrase ==
    { parse_date_string(DateOf(text[d])) :
        d \in { e \in DOMAIN text :
                  /\ parse_date_string(DateOf(text[e])) # None
                  /\ \E i \in 1..(e - 1) :
                         /\ text[i] = Phrase
                         /\ Start(text, e) + Width(text[e]) - 1
                                <= Start(text, i) + PhraseLen + PhraseReach } }

\* C8 as stated: when no key got a date from its alias windows and a phrase
\* is followed within 120 characters by a valid date, "general" gets that
\* date, whatever the month's letter case and across a line break.
C8_GlobalScanFinds ==
    ( /\ pc = "done"
      /\ \A k \in Range(Keys) : ~ ByAlias(k)
      /\ DatesAfterPhrase # {} ) => found["general"] \in DatesAfterPhrase

\* ---------------------------------------------------------------------- C9
\* The slice that decided key k.
DecidingSlice(k) ==
    LET a == mapping[k][decided[k].alias]
        j == decided[k].tok
    IN  IF decided[k].via = "window"
        THEN <<SpanStart(text, a, j), SpanEnd(text, a, j)>>
        ELSE <<LinesStart(text, a, j), LinesEnd(text, a, j)>>

MatchIn(k, i) == MatchAt(text, i, DecidingSlice(k)[1], DecidingSlice(k)[2], TRUE)

\* The valid date-like substrings in the slice that decided key k.
ValidHits(k) ==
    { i \in DOMAIN text : parse_date_string(MatchIn(k, i)) # None }

\* Characters between the match in token i and the deciding alias occurrence.
Distance(k, i) ==
    LET ms == Start(text, decided[k].tok)
        me == ms + AliasLen(mapping[k][decided[k].alias])
        b == Max(DecidingSlice(k)[1], Start(text, i))
        e == Start(text, i) + Width(text[i]) - 1
    IN  IF e <= ms THEN ms - e ELSE IF b >= me THEN b - me ELSE 0

SeveralDates(k) == ByAlias(k) /\ Cardinality(ValidHits(k)) > 1

\* C9 as stated: with several valid dates in the deciding window, the key
\* gets the one nearest to the alias occurrence.
C9_NearestDateWins ==
    Returned =>
        \A k \in Range(Keys) :
            SeveralDates(k) =>
                \E i \in ValidHits(k) :
                    /\ \A j \in ValidHits(k) : Distance(k, i) <= Distance(k, j)
                    /\ found[k] = parse_date_string(MatchIn(k, i))

\* C9 amended: with several valid dates in the deciding window, the key gets
\* the leftmost date-like substring of that window, nearest or not.
C9_LeftmostDateWins ==
    Returned =>
        \A k \in Range(Keys) :
            SeveralDates(k) =>
                LET hits == DateHits(text, DecidingSlice(k)[1], DecidingSlice(k)[2], TRUE)
                IN  found[k] = parse_date_string(MatchIn(k, SetMin(hits)))

C9_Witness ==
    /\ pc = "done"
    /\ \E k \in Range(Keys) :
           /\ SeveralDates(k)
           /\ \E i \in ValidHits(k) :
                  /\ Distance(k, i) < Distance(k, SetMin(ValidHits(k)))
                  /\ parse_date_string(MatchIn(k, i)) # found[k]

\* --------------------------------------------------------------------- C10
\* C10 as stated: for the occurrence handled last, the lines window contains
\* the whole +/-120 window.
C10_LinesWindowWider ==
    win.lines => (win.ls <= win.ws /\ win.we <= win.le)

====
